---- MODULE Spec2Model ----
(***************************************************************************)
(* FRIDA asynchronous job pipeline: the jobs table (app/database.py), the  *)
(* worker that runs one job through the image pipeline                     *)
(* (JobWorker, app/services/job_worker.py) and the polling daemon          *)
(* (JobWorkerDaemon, same file).                                           *)
(*                                                                         *)
(* Every database call and every pipeline stage is one atomic step of the  *)
(* execution context that makes it; contexts interleave between steps.     *)
(***************************************************************************)
EXTENDS Integers, Sequences, FiniteSets, TLC

(***************************************************************************)
(* Bounds of the model.                                                    *)
(***************************************************************************)
MaxJobs == 1        \* rows the producer inserts in the jobs table
MaxTime == 7        \* the clock runs 0..MaxTime
MaxCalls == 4       \* process_job calls made by direct callers
MaxFaults == 1      \* JobStore calls that raise (specifications with faults)

(***************************************************************************)
(* Program constants.                                                      *)
(***************************************************************************)
RETRY_DELAYS == <<2, 4, 8>>
MAX_ATTEMPTS == 3
DEFAULT_MAX_ATTEMPTS == 3
NULL == -1          \* a column holding no value (next_retry_at never set)
NONE == 0           \* Python None where a job id or a thread is expected

JobIds == 1..(MaxJobs + 1)
Providers == <<"rembg">>
\* What one provider call does: it raises, returns no bytes, or returns an image
ProviderOutcomes == {"raises", "empty", "result"}
\* Scores validate_from_bytes can report (0..100), around the threshold
Scores == {0, 79, 80}
PASS_THRESHOLD == 80
ImageTypes == {"segmented", "processed"}

VARIABLES
    now,        \* the clock (datetime.now)
    jobs,       \* the jobs table: job id -> row
    blobs,      \* object storage: <<job id, variant>> -> writer context, 0 when absent
    images,     \* the images table: <<job id, type>> -> number of rows
    ctx,        \* execution contexts: daemon threads and direct callers
    daemon,     \* JobWorkerDaemon instances
    faults,     \* JobStore calls that may still raise
    pending,    \* rows the producer has still to insert
    calls,      \* process_job calls the direct callers have still to make
    hist,       \* history: per job, accepted runs and handled failures
    pipe,       \* one ImagePipelineSync instance and the threads reading .client
    call        \* one call of ImageComposer or HuskLayer: arguments, position, outcome

jobVars == <<now, jobs, blobs, images, ctx, daemon, faults, pending, calls, hist>>
vars == <<now, jobs, blobs, images, ctx, daemon, faults, pending, calls, hist,
          pipe, call>>

Min(a, b) == IF a <= b THEN a ELSE b

(***************************************************************************)
(* The jobs table.                                                         *)
(***************************************************************************)
NewJob(hasPath, t) ==
    [ status        |-> "queued",
      current_step  |-> "uploading",
      progress      |-> 0,
      attempts      |-> 0,
      max_attempts  |-> DEFAULT_MAX_ATTEMPTS,
      next_retry_at |-> NULL,
      created_at    |-> t,
      provider      |-> "",
      last_error    |-> <<>>,
      output_data   |-> <<>>,
      has_path      |-> hasPath ]

\* client.table("jobs").update(update_data).eq("id", job_id): only the fields
\* of upd change; a missing row changes nothing.
ApplyUpdate(js, id, upd) ==
    IF id \in DOMAIN js
    THEN [js EXCEPT ![id] =
            [f \in DOMAIN js[id] |-> IF f \in DOMAIN upd THEN upd[f] ELSE js[id][f]]]
    ELSE js

\* update_job_progress: the update raises (ok = FALSE) or is applied.
UpdateJobProgress(js, id, upd, ok) == IF ok THEN ApplyUpdate(js, id, upd) ELSE js

\* complete_job
CompleteJob(js, id, out, ok) ==
    IF ok
    THEN ApplyUpdate(js, id, [status |-> "completed", current_step |-> "done",
                              progress |-> 100, output_data |-> <<out>>])
    ELSE js

\* fail_job: max_attempts is re-read from the row (3 when the row is missing)
FailJob(js, id, error, ok) ==
    IF ok /\ id \in DOMAIN js
    THEN ApplyUpdate(js, id, [status |-> "failed", last_error |-> error,
                              attempts |-> js[id].max_attempts])
    ELSE js


\* get_next_queued_job: the values the call can return (NONE when the queue is
\* empty); rows tied on the ordering column are returned in either order.
QueuedJobs(js) == {j \in DOMAIN js : js[j].status = "queued"}

FirstQueued(js) ==
    {j \in QueuedJobs(js) :
        \A k \in QueuedJobs(js) : js[j].created_at <= js[k].created_at}

\* A failed-jobs query without the lte("next_retry_at", now) filter
FailedAnyTime(js, t) ==
    {j \in DOMAIN js : /\ js[j].status = "failed"
                       /\ js[j].next_retry_at # NULL}

FailedDue(js, t) ==
    {j \in DOMAIN js : /\ js[j].status = "failed"
                       /\ js[j].next_retry_at # NULL
                       /\ js[j].next_retry_at <= t}

FirstFailedDue(js, t) ==
    {j \in FailedDue(js, t) :
        \A k \in FailedDue(js, t) : js[j].next_retry_at <= js[k].next_retry_at}

\* A dequeue that returns the failed row it selected without looking at its
\* attempts
GetNextQueuedJobUnlimited(js, t) ==
    IF QueuedJobs(js) # {}
    THEN FirstQueued(js)
    ELSE FirstFailedDue(js, t) \cup (IF FailedDue(js, t) = {} THEN {NONE} ELSE {})

GetNextQueuedJob(js, t) ==
    IF QueuedJobs(js) # {}
    THEN FirstQueued(js)
    ELSE {IF js[j].attempts < js[j].max_attempts THEN j ELSE NONE :
            j \in FirstFailedDue(js, t)}
         \cup (IF FailedDue(js, t) = {} THEN {NONE} ELSE {})

(***************************************************************************)
(* JobWorker helpers.                                                      *)
(***************************************************************************)
\* An admission test that lets every status through
AcceptsAnyStatus(s) == s \in {"queued", "failed", "processing", "completed"}

\* process_job's admission test on the status it read
AcceptsStatus(s) == s \in {"queued", "failed"}

\* A delay indexed by the attempts counter after the increment
GetRetryDelayAfter(attempts) == RETRY_DELAYS[Min(attempts + 1, Len(RETRY_DELAYS) - 1) + 1]

\* _get_retry_delay on the attempts value it read
GetRetryDelay(attempts) == RETRY_DELAYS[Min(attempts, Len(RETRY_DELAYS) - 1) + 1]

\* _segment_with_fallback: index of the provider whose result is returned,
\* 0 when every provider raised; works[i] is what provider i does when it is
\* called. Whatever a provider returns without raising is returned.
RECURSIVE FirstWorking(_, _)
FirstWorking(works, i) ==
    IF i > Len(Providers) THEN 0
    ELSE IF works[i] # "raises" THEN i
    ELSE FirstWorking(works, i + 1)

\* A chain that hands on the last provider's outcome when every provider raised
SegmentWithFallbackLenient(works) ==
    IF FirstWorking(works, 1) = 0 THEN Len(Providers) ELSE FirstWorking(works, 1)

SegmentWithFallback(works) == FirstWorking(works, 1)

\* The providers the chain called, with what each did
Tried(works, i) == IF i = 0 THEN works ELSE SubSeq(works, 1, i)

\* QualityReport.passed
QualityPassed(score) == score >= PASS_THRESHOLD

\* The message _handle_failure hands to fail_job
FinalError(error) == <<"Falhou apos 3 tentativas. Ultimo erro: ">> \o error

(***************************************************************************)
(* Execution contexts.                                                     *)
(***************************************************************************)
FreshCtx(role) ==
    [ role |-> role, pc |-> "idle", d |-> NONE, job |-> NONE,
      err |-> <<>>, delay |-> 0, new_attempts |-> 0, retry |-> FALSE,
      provider |-> "", tried |-> <<>>, qscore |-> 0, qpass |-> FALSE,
      seg_id |-> FALSE, proc_id |-> FALSE,
      ret |-> FALSE, accepted |-> FALSE, raised |-> {} ]

Upd(c, r) ==
    [ctx EXCEPT ![c] =
        [f \in DOMAIN ctx[c] |-> IF f \in DOMAIN r THEN r[f] ELSE ctx[c][f]]]

\* process_job returns val: a daemon thread goes on in _run_loop, a direct
\* caller is idle again. The locals of the call are dropped.
Return(c, val) ==
    [ctx EXCEPT ![c] =
        [FreshCtx(ctx[c].role) EXCEPT
            !.pc = IF ctx[c].role = "thread" THEN "l_after" ELSE "idle",
            !.d = ctx[c].d, !.job = ctx[c].job, !.ret = val,
            !.accepted = ctx[c].accepted, !.raised = ctx[c].raised]]

\* Outcomes of one JobStore call: it raises only while faults remain.
Outcomes == IF faults > 0 THEN {TRUE, FALSE} ELSE {TRUE}
Cost(ok) == IF ok THEN 0 ELSE 1

FreshDaemon ==
    [ running |-> FALSE, stop_set |-> FALSE, thread |-> NONE,
      jobs_processed |-> 0, jobs_failed |-> 0, current_job_id |-> NONE,
      joining |-> FALSE ]

\* ImagePipelineSync.__init__: no client yet, the lock free; nobody reads it.
NewPipe(nAccessors, settings) ==
    [client |-> NONE, lock |-> NONE, built |-> 0, configured |-> settings,
     acc |-> [t \in 1..nAccessors |-> [pc |-> "idle", left |-> 0, got |-> <<>>]]]

\* No composer or validator call is under way.
NoCall == [fn |-> "none", pc |-> "done"]

InitJobs(nThreads, nCallers, nDaemons, budget, nJobs, nCalls) ==
    /\ now = 0
    /\ jobs = <<>>
    /\ blobs = [k \in JobIds \X ImageTypes |-> 0]
    /\ images = [k \in JobIds \X ImageTypes |-> 0]
    /\ ctx = [c \in 1..(nThreads + nCallers) |->
                FreshCtx(IF c <= nThreads THEN "thread" ELSE "caller")]
    /\ daemon = [d \in 1..nDaemons |-> FreshDaemon]
    /\ faults = budget
    /\ pending = nJobs
    /\ calls = nCalls
    /\ hist = [j \in JobIds |-> [accepted |-> 0, failures |-> 0]]

InitWith(nThreads, nCallers, nDaemons, budget, nJobs, nCalls) ==
    /\ InitJobs(nThreads, nCallers, nDaemons, budget, nJobs, nCalls)
    /\ pipe = NewPipe(0, TRUE)
    /\ call = NoCall

(***************************************************************************)
(* Environment: the producer of jobs and the clock.                        *)
(***************************************************************************)
\* create_job (POST /process-async): a new row, status queued
CreateJob ==
    /\ pending > 0
    /\ pending' = pending - 1
    /\ \E hasPath \in BOOLEAN : jobs' = Append(jobs, NewJob(hasPath, Len(jobs) + 1))
    /\ UNCHANGED <<now, blobs, images, ctx, daemon, faults, calls, hist, pipe, call>>

Waiting == {j \in DOMAIN jobs : jobs[j].status = "failed" /\ jobs[j].next_retry_at > now}

Tick ==
    /\ now < MaxTime
    /\ Waiting # {}
    /\ now' = now + 1
    /\ UNCHANGED <<jobs, blobs, images, ctx, daemon, faults, hist, pending, calls, pipe, call>>


(***************************************************************************)
(* JobWorker.process_job, one action per database call or pipeline stage.  *)
(***************************************************************************)
Job(c) == ctx[c].job

\* Progress writes around a stage, the first of which restarts the progress
StageWritesFromZero(j, pre, post, ok1, ok2, raises) ==
    IF raises
    THEN UpdateJobProgress(jobs, j, [pre EXCEPT !.progress = 0], ok1)
    ELSE UpdateJobProgress(
            UpdateJobProgress(jobs, j, [pre EXCEPT !.progress = 0], ok1), j, post, ok2)

\* The two progress writes around a stage: pre before the stage runs, post
\* after it returned; a stage that raises skips post.
StageWrites(j, pre, post, ok1, ok2, raises) ==
    IF raises
    THEN UpdateJobProgress(jobs, j, pre, ok1)
    ELSE UpdateJobProgress(UpdateJobProgress(jobs, j, pre, ok1), j, post, ok2)

\* except Exception as e: ... return self._handle_failure(job_id, error_msg)
Raise(c, stage, msg) ==
    Upd(c, [pc |-> "h_delay", err |-> msg, raised |-> ctx[c].raised \cup {stage}])

\* A direct caller invokes process_job(j); j may be an id with no row.
CallProcess(c, j) ==
    /\ ctx[c].role = "caller"
    /\ ctx[c].pc = "idle"
    /\ calls > 0
    /\ calls' = calls - 1
    /\ ctx' = [ctx EXCEPT ![c] = [FreshCtx("caller") EXCEPT !.pc = "p_get", !.job = j]]
    /\ UNCHANGED <<now, jobs, blobs, images, daemon, faults, hist, pending, pipe, call>>

\* job = get_job(job_id); the two early returns
ProcessGet(c) ==
    /\ ctx[c].pc = "p_get"
    /\ \E ok \in Outcomes :
        LET j == Job(c)
            found == ok /\ j \in DOMAIN jobs
        IN  /\ faults' = faults - Cost(ok)
            /\ IF found /\ AcceptsStatus(jobs[j].status)
               THEN /\ ctx' = Upd(c, [pc |-> "p_mark", accepted |-> TRUE])
                    /\ hist' = [hist EXCEPT ![j].accepted = @ + 1]
               ELSE /\ ctx' = Return(c, FALSE)
                    /\ UNCHANGED hist
    /\ UNCHANGED <<now, jobs, blobs, images, daemon, pending, calls, pipe, call>>

\* update_job_progress(job_id, status="processing", current_step="downloading", progress=5)
ProcessMark(c) ==
    /\ ctx[c].pc = "p_mark"
    /\ \E ok \in Outcomes :
        /\ faults' = faults - Cost(ok)
        /\ jobs' = UpdateJobProgress(jobs, Job(c),
                     [status |-> "processing", current_step |-> "downloading",
                      progress |-> 5], ok)
    /\ ctx' = Upd(c, [pc |-> "p_download"])
    /\ UNCHANGED <<now, blobs, images, daemon, hist, pending, calls, pipe, call>>

\* original_path check and stage 1, download
StageDownload(c) ==
    /\ ctx[c].pc = "p_download"
    /\ IF ~jobs[Job(c)].has_path
       THEN /\ ctx' = Raise(c, "download", <<"original_path nao encontrado">>)
            /\ UNCHANGED <<jobs, faults>>
       ELSE \E ok1 \in Outcomes, ok2 \in Outcomes, raises \in BOOLEAN :
            /\ Cost(ok1) + Cost(ok2) <= faults
            /\ raises => ok2
            /\ faults' = faults - Cost(ok1) - Cost(ok2)
            /\ jobs' = StageWrites(Job(c),
                         [current_step |-> "downloading", progress |-> 10],
                         [progress |-> 20], ok1, ok2, raises)
            /\ ctx' = IF raises THEN Raise(c, "download", <<"download">>)
                      ELSE Upd(c, [pc |-> "p_segment"])
    /\ UNCHANGED <<now, blobs, images, daemon, hist, pending, calls, pipe, call>>

\* stage 2, segmentation with the provider fallback
StageSegment(c) ==
    /\ ctx[c].pc = "p_segment"
    /\ \E ok1 \in Outcomes, ok2 \in Outcomes,
          works \in [1..Len(Providers) -> ProviderOutcomes] :
        LET i == SegmentWithFallback(works)
            raises == i = 0
        IN  /\ Cost(ok1) + Cost(ok2) <= faults
            /\ raises => ok2
            /\ faults' = faults - Cost(ok1) - Cost(ok2)
            /\ jobs' = StageWrites(Job(c),
                         [current_step |-> "segmenting", progress |-> 25],
                         [provider |-> IF raises THEN "" ELSE Providers[i],
                          progress |-> 50], ok1, ok2, raises)
            /\ ctx' = IF raises
                      THEN [Raise(c, "segment",
                                  <<"Segmentacao falhou com todos os providers. Ultimo erro: ",
                                    Providers[Len(Providers)]>>)
                               EXCEPT ![c].tried = Tried(works, i)]
                      ELSE Upd(c, [pc |-> "p_compose", provider |-> Providers[i],
                                   tried |-> Tried(works, i)])
    /\ UNCHANGED <<now, blobs, images, daemon, hist, pending, calls, pipe, call>>

\* stage 3, composition; Image.open raises on bytes that are no image
StageCompose(c) ==
    /\ ctx[c].pc = "p_compose"
    /\ \E ok1 \in Outcomes, ok2 \in Outcomes, raises \in BOOLEAN :
        /\ Cost(ok1) + Cost(ok2) <= faults
        /\ raises => ok2
        /\ ctx[c].tried[Len(ctx[c].tried)] = "empty" => raises
        /\ faults' = faults - Cost(ok1) - Cost(ok2)
        /\ jobs' = StageWrites(Job(c),
                     [current_step |-> "composing", progress |-> 55],
                     [progress |-> 75], ok1, ok2, raises)
        /\ ctx' = IF raises THEN Raise(c, "compose", <<"compose">>)
                  ELSE Upd(c, [pc |-> "p_validate"])
    /\ UNCHANGED <<now, blobs, images, daemon, hist, pending, calls, pipe, call>>

\* What process_job does with the outcome of validate_from_bytes, treating a
\* report that did not pass as an exception
AfterValidateStrict(c, raises, score) ==
    IF raises THEN Raise(c, "validate", <<"validate">>)
    ELSE IF ~QualityPassed(score)
    THEN [Raise(c, "validate", <<"validate">>) EXCEPT ![c].qscore = score]
    ELSE Upd(c, [pc |-> "p_upload_seg", qscore |-> score,
                 qpass |-> QualityPassed(score)])

\* What process_job does with the outcome of validate_from_bytes
AfterValidate(c, raises, score) ==
    IF raises THEN Raise(c, "validate", <<"validate">>)
    ELSE Upd(c, [pc |-> "p_upload_seg", qscore |-> score,
                 qpass |-> QualityPassed(score)])

\* stage 4, validation: the report carries any score
StageValidate(c) ==
    /\ ctx[c].pc = "p_validate"
    /\ \E ok1 \in Outcomes, ok2 \in Outcomes, raises \in BOOLEAN, score \in Scores :
        /\ Cost(ok1) + Cost(ok2) <= faults
        /\ raises => (ok2 /\ score = 0)
        /\ faults' = faults - Cost(ok1) - Cost(ok2)
        /\ jobs' = StageWrites(Job(c),
                     [current_step |-> "validating", progress |-> 78],
                     [progress |-> 85], ok1, ok2, raises)
        /\ ctx' = AfterValidate(c, raises, score)
    /\ UNCHANGED <<now, blobs, images, daemon, hist, pending, calls, pipe, call>>

\* _upload_to_storage: remove (errors ignored), then upload, which may raise
UploadToStorage(key, c, removed, raises) ==
    [blobs EXCEPT ![key] = IF ~raises THEN c ELSE IF removed THEN 0 ELSE @]

\* stage 5, first half: upload of the segmented variant
StageUploadSegmented(c) ==
    /\ ctx[c].pc = "p_upload_seg"
    /\ \E ok1 \in Outcomes, ok2 \in Outcomes, raises \in BOOLEAN, removed \in BOOLEAN :
        /\ Cost(ok1) + Cost(ok2) <= faults
        /\ raises => ok2
        /\ faults' = faults - Cost(ok1) - Cost(ok2)
        /\ jobs' = StageWrites(Job(c),
                     [current_step |-> "saving", progress |-> 88],
                     [progress |-> 92], ok1, ok2, raises)
        /\ blobs' = UploadToStorage(<<Job(c), "segmented">>, c, removed, raises)
        /\ ctx' = IF raises THEN Raise(c, "save", <<"upload segmented">>)
                  ELSE Upd(c, [pc |-> "p_upload_proc"])
    /\ UNCHANGED <<now, images, daemon, hist, pending, calls, pipe, call>>

\* stage 5, second half: upload of the composed variant
StageUploadProcessed(c) ==
    /\ ctx[c].pc = "p_upload_proc"
    /\ \E ok \in Outcomes, raises \in BOOLEAN, removed \in BOOLEAN :
        /\ raises => ok
        /\ faults' = faults - Cost(ok)
        /\ jobs' = IF raises THEN jobs
                   ELSE UpdateJobProgress(jobs, Job(c), [progress |-> 95], ok)
        /\ blobs' = UploadToStorage(<<Job(c), "processed">>, c, removed, raises)
        /\ ctx' = IF raises THEN Raise(c, "save", <<"upload processed">>)
                  ELSE Upd(c, [pc |-> "p_register"])
    /\ UNCHANGED <<now, images, daemon, hist, pending, calls, pipe, call>>

\* stage 6: create_image for each variant; an exception of create_image is
\* caught on the spot and the image id stays None
StageRegister(c) ==
    /\ ctx[c].pc = "p_register"
    /\ \E segOk \in BOOLEAN, procOk \in BOOLEAN :
        /\ images' = [images EXCEPT
                        ![<<Job(c), "segmented">>] = @ + (IF segOk THEN 1 ELSE 0),
                        ![<<Job(c), "processed">>] = @ + (IF procOk THEN 1 ELSE 0)]
        /\ ctx' = Upd(c, [pc |-> "p_complete", seg_id |-> segOk, proc_id |-> procOk,
                          raised |-> ctx[c].raised \cup
                                     (IF segOk /\ procOk THEN {} ELSE {"register"})])
    /\ UNCHANGED <<now, jobs, blobs, daemon, faults, hist, pending, calls, pipe, call>>

OutputData(c) ==
    [ provider_used |-> ctx[c].provider, quality_score |-> ctx[c].qscore,
      quality_passed |-> ctx[c].qpass,
      segmented_id |-> ctx[c].seg_id, processed_id |-> ctx[c].proc_id ]

\* stage 7: the last progress write, complete_job, return True
StageComplete(c) ==
    /\ ctx[c].pc = "p_complete"
    /\ \E ok1 \in Outcomes, ok2 \in Outcomes :
        /\ Cost(ok1) + Cost(ok2) <= faults
        /\ faults' = faults - Cost(ok1) - Cost(ok2)
        /\ jobs' = CompleteJob(
                     UpdateJobProgress(jobs, Job(c),
                        [current_step |-> "done", progress |-> 100], ok1),
                     Job(c), OutputData(c), ok2)
    /\ ctx' = Return(c, TRUE)
    /\ UNCHANGED <<now, blobs, images, daemon, hist, pending, calls, pipe, call>>

(***************************************************************************)
(* JobWorker._handle_failure                                               *)
(***************************************************************************)
\* _get_retry_delay(job_id): get_job, then the delay for the attempts read
HandleDelay(c) ==
    /\ ctx[c].pc = "h_delay"
    /\ \E ok \in Outcomes :
        /\ faults' = faults - Cost(ok)
        /\ ctx' = Upd(c, [pc |-> "h_incr_read",
                          delay |-> IF ok /\ Job(c) \in DOMAIN jobs
                                    THEN GetRetryDelay(jobs[Job(c)].attempts)
                                    ELSE RETRY_DELAYS[1]])
    /\ hist' = [hist EXCEPT ![Job(c)].failures = @ + 1]
    /\ UNCHANGED <<now, jobs, blobs, images, daemon, pending, calls, pipe, call>>

\* increment_job_attempt, first half: get_job and the new counter
IncrementRead(c) ==
    /\ ctx[c].pc = "h_incr_read"
    /\ \E ok \in Outcomes :
        /\ faults' = faults - Cost(ok)
        /\ ctx' = IF ok /\ Job(c) \in DOMAIN jobs
                  THEN Upd(c, [pc |-> "h_incr_write",
                               new_attempts |-> jobs[Job(c)].attempts + 1,
                               retry |-> jobs[Job(c)].attempts + 1
                                            < jobs[Job(c)].max_attempts])
                  ELSE Upd(c, [pc |-> "h_fail", retry |-> FALSE])
    /\ UNCHANGED <<now, jobs, blobs, images, daemon, hist, pending, calls, pipe, call>>

\* The row increment_job_attempt writes
IncrementUpdate(c, t) ==
    IF ctx[c].retry /\ ctx[c].delay # 0
    THEN [attempts |-> ctx[c].new_attempts, last_error |-> ctx[c].err,
          status |-> "failed", next_retry_at |-> t + ctx[c].delay]
    ELSE [attempts |-> ctx[c].new_attempts, last_error |-> ctx[c].err,
          status |-> "failed"]

\* increment_job_attempt, second half: the update; when it raises the call
\* answers should_retry = False
IncrementWrite(c) ==
    /\ ctx[c].pc = "h_incr_write"
    /\ \E ok \in Outcomes :
        /\ faults' = faults - Cost(ok)
        /\ jobs' = IF ok THEN ApplyUpdate(jobs, Job(c), IncrementUpdate(c, now)) ELSE jobs
        /\ ctx' = IF ok /\ ctx[c].retry
                  THEN Return(c, FALSE)
                  ELSE Upd(c, [pc |-> "h_fail", retry |-> FALSE])
    /\ UNCHANGED <<now, blobs, images, daemon, hist, pending, calls, pipe, call>>

\* fail_job(job_id, ...) when no retry is left, return False
HandleFail(c) ==
    /\ ctx[c].pc = "h_fail"
    /\ \E ok \in Outcomes :
        /\ faults' = faults - Cost(ok)
        /\ jobs' = FailJob(jobs, Job(c), FinalError(ctx[c].err), ok)
    /\ ctx' = Return(c, FALSE)
    /\ UNCHANGED <<now, blobs, images, daemon, hist, pending, calls, pipe, call>>

ProcessJob(c) ==
    \/ ProcessGet(c) \/ ProcessMark(c)
    \/ StageDownload(c) \/ StageSegment(c) \/ StageCompose(c) \/ StageValidate(c)
    \/ StageUploadSegmented(c) \/ StageUploadProcessed(c) \/ StageRegister(c)
    \/ StageComplete(c)
    \/ HandleDelay(c) \/ IncrementRead(c) \/ IncrementWrite(c) \/ HandleFail(c)


(***************************************************************************)
(* JobWorkerDaemon                                                         *)
(***************************************************************************)
Alive(c) == ctx[c].pc \notin {"idle", "dead"}

\* A context on which threading.Thread(...).start() can run a new thread
FreeThreads(d) ==
    {c \in DOMAIN ctx : /\ ctx[c].role = "thread"
                        /\ ~Alive(c)
                        /\ \A e \in DOMAIN daemon : e # d => daemon[e].thread # c}

\* A start() without the test of self.running
StartAlways(d) ==
    /\ ~daemon[d].joining
    /\ \E c \in FreeThreads(d) :
        /\ daemon' = [daemon EXCEPT ![d].running = TRUE,
                                    ![d].stop_set = FALSE,
                                    ![d].thread = c]
        /\ ctx' = [ctx EXCEPT ![c] =
                      [FreshCtx("thread") EXCEPT !.pc = "l_check", !.d = d]]
    /\ UNCHANGED <<now, jobs, blobs, images, faults, hist, pending, calls, pipe, call>>

\* start(): nothing when already running, else one new thread on _run_loop
Start(d) ==
    /\ ~daemon[d].joining
    /\ IF daemon[d].running
       THEN UNCHANGED <<ctx, daemon>>
       ELSE \E c \in FreeThreads(d) :
            /\ daemon' = [daemon EXCEPT ![d].running = TRUE,
                                        ![d].stop_set = FALSE,
                                        ![d].thread = c]
            /\ ctx' = [ctx EXCEPT ![c] =
                          [FreshCtx("thread") EXCEPT !.pc = "l_check", !.d = d]]
    /\ UNCHANGED <<now, jobs, blobs, images, faults, hist, pending, calls, pipe, call>>

\* stop(timeout), up to thread.join: nothing when not running
Stop(d) ==
    /\ ~daemon[d].joining
    /\ daemon' = IF daemon[d].running
                 THEN [daemon EXCEPT ![d].running = FALSE,
                                     ![d].stop_set = TRUE,
                                     ![d].joining = daemon[d].thread # NONE]
                 ELSE daemon
    /\ UNCHANGED <<now, jobs, blobs, images, ctx, faults, hist, pending, calls, pipe, call>>

LoopPcs == {"l_check", "l_poll", "l_after", "l_wait"}
InProcessJob(c) == Alive(c) /\ ctx[c].pc \notin LoopPcs

\* thread.join(timeout) returns: the thread ended, or the timeout elapsed
\* with the thread still alive. The timeout is longer than an iteration of
\* the loop that runs no job, so it elapses only while a job is in flight.
StopReturn(d) ==
    /\ daemon[d].joining
    /\ ~Alive(daemon[d].thread) \/ InProcessJob(daemon[d].thread)
    /\ daemon' = [daemon EXCEPT ![d].joining = FALSE]
    /\ UNCHANGED <<now, jobs, blobs, images, ctx, faults, hist, pending, calls, pipe, call>>

\* while self.running and not self._stop_event.is_set()
LoopCheck(c) ==
    /\ ctx[c].pc = "l_check"
    /\ ctx' = IF daemon[ctx[c].d].running /\ ~daemon[ctx[c].d].stop_set
              THEN Upd(c, [pc |-> "l_poll"])
              ELSE [ctx EXCEPT ![c] = [FreshCtx("thread") EXCEPT !.pc = "dead"]]
    /\ UNCHANGED <<now, jobs, blobs, images, daemon, faults, hist, pending, calls, pipe, call>>

\* A dequeue that claims the job it returns in the same step
LoopPollClaiming(c) ==
    /\ ctx[c].pc = "l_poll"
    /\ \E r \in GetNextQueuedJob(jobs, now) :
        /\ IF r # NONE
           THEN /\ daemon' = [daemon EXCEPT ![ctx[c].d].current_job_id = r]
                /\ jobs' = ApplyUpdate(jobs, r, [status |-> "processing"])
                /\ ctx' = [ctx EXCEPT ![c] = [FreshCtx("thread") EXCEPT
                                    !.pc = "p_mark", !.d = ctx[c].d, !.job = r,
                                    !.accepted = TRUE]]
           ELSE /\ ctx' = Upd(c, [pc |-> "l_wait"])
                /\ UNCHANGED <<daemon, jobs>>
    /\ UNCHANGED <<now, blobs, images, faults, hist, pending, calls, pipe, call>>

\* A loop that an error of the dequeue ends
LoopPollFragile(c) ==
    /\ ctx[c].pc = "l_poll"
    /\ \E ok \in Outcomes :
       \E r \in IF ok THEN GetNextQueuedJob(jobs, now) ELSE {NONE} :
        /\ faults' = faults - Cost(ok)
        /\ IF r # NONE
           THEN /\ daemon' = [daemon EXCEPT ![ctx[c].d].current_job_id = r]
                /\ ctx' = [ctx EXCEPT ![c] = [FreshCtx("thread") EXCEPT
                                    !.pc = "p_get", !.d = ctx[c].d, !.job = r]]
           ELSE /\ ctx' = IF ok THEN Upd(c, [pc |-> "l_wait"])
                          ELSE [ctx EXCEPT ![c] = [FreshCtx("thread") EXCEPT !.pc = "dead"]]
                /\ UNCHANGED daemon
    /\ UNCHANGED <<now, jobs, blobs, images, hist, pending, calls, pipe, call>>

\* job = get_next_queued_job(); a query that raises answers None
LoopPoll(c) ==
    /\ ctx[c].pc = "l_poll"
    /\ \E ok \in Outcomes :
       \E r \in IF ok THEN GetNextQueuedJob(jobs, now) ELSE {NONE} :
        /\ faults' = faults - Cost(ok)
        /\ IF r # NONE
           THEN /\ daemon' = [daemon EXCEPT ![ctx[c].d].current_job_id = r]
                /\ ctx' = [ctx EXCEPT ![c] = [FreshCtx("thread") EXCEPT
                                    !.pc = "p_get", !.d = ctx[c].d, !.job = r]]
           ELSE /\ ctx' = Upd(c, [pc |-> "l_wait"])
                /\ UNCHANGED daemon
    /\ UNCHANGED <<now, jobs, blobs, images, hist, pending, calls, pipe, call>>

\* after process_job returned: counters, then the stop check between jobs
LoopAfter(c) ==
    /\ ctx[c].pc = "l_after"
    /\ daemon' = [daemon EXCEPT
                    ![ctx[c].d].current_job_id = NONE,
                    ![ctx[c].d].jobs_processed = @ + (IF ctx[c].ret THEN 1 ELSE 0),
                    ![ctx[c].d].jobs_failed = @ + (IF ctx[c].ret THEN 0 ELSE 1)]
    /\ ctx' = [ctx EXCEPT ![c] = [FreshCtx("thread") EXCEPT
                    !.pc = IF daemon[ctx[c].d].stop_set THEN "dead" ELSE "l_wait",
                    !.d = IF daemon[ctx[c].d].stop_set THEN NONE ELSE ctx[c].d]]
    /\ UNCHANGED <<now, jobs, blobs, images, faults, hist, pending, calls, pipe, call>>

\* self._stop_event.wait(timeout=...) returns, by timeout or by the event
LoopWait(c) ==
    /\ ctx[c].pc = "l_wait"
    /\ ctx' = Upd(c, [pc |-> "l_check"])
    /\ UNCHANGED <<now, jobs, blobs, images, daemon, faults, hist, pending, calls, pipe, call>>

RunLoop(c) == LoopCheck(c) \/ LoopPoll(c) \/ LoopAfter(c) \/ LoopWait(c)

(***************************************************************************)
(* Specifications.                                                         *)
(***************************************************************************)
Pipeline ==
    \/ \E c \in DOMAIN ctx : ProcessGet(c)
    \/ \E c \in DOMAIN ctx : ProcessMark(c)
    \/ \E c \in DOMAIN ctx : StageDownload(c)
    \/ \E c \in DOMAIN ctx : StageSegment(c)
    \/ \E c \in DOMAIN ctx : StageCompose(c)
    \/ \E c \in DOMAIN ctx : StageValidate(c)
    \/ \E c \in DOMAIN ctx : StageUploadSegmented(c)
    \/ \E c \in DOMAIN ctx : StageUploadProcessed(c)
    \/ \E c \in DOMAIN ctx : StageRegister(c)
    \/ \E c \in DOMAIN ctx : StageComplete(c)

Retry ==
    \/ \E c \in DOMAIN ctx : HandleDelay(c)
    \/ \E c \in DOMAIN ctx : IncrementRead(c)
    \/ \E c \in DOMAIN ctx : IncrementWrite(c)

GiveUp == \E c \in DOMAIN ctx : HandleFail(c)

Scheduler ==
    \/ \E d \in DOMAIN daemon : Start(d)
    \/ \E c \in DOMAIN ctx : LoopCheck(c)
    \/ \E c \in DOMAIN ctx : LoopPoll(c)
    \/ \E c \in DOMAIN ctx : LoopAfter(c)
    \/ \E c \in DOMAIN ctx : LoopWait(c)

Direct == \E c \in DOMAIN ctx : \E j \in JobIds : CallProcess(c, j)

\* One daemon, started and left running, on a reliable JobStore.
Init == InitWith(1, 0, 1, 0, MaxJobs, 0)
Next == CreateJob \/ Tick \/ Pipeline \/ Retry \/ GiveUp \/ Scheduler
Spec == Init /\ [][Next]_vars

\* The same with one more job, for the order in which jobs are dequeued.
InitQueue == InitWith(1, 0, 1, 0, MaxJobs + 1, 0)
SpecQueue == InitQueue /\ [][Next]_vars

\* One daemon on a JobStore whose calls can raise.
InitFaulty == InitWith(1, 0, 1, MaxFaults, MaxJobs, 0)
SpecFaulty == InitFaulty /\ [][Next]_vars

\* Two daemons polling the same JobStore, within one instant of the clock:
\* a failed job waits at least RETRY_DELAYS[1] for its retry, so no job
\* fails a third time and fail_job is not reached.
InitTwo == InitWith(2, 0, 2, 0, MaxJobs, 0)
NextTwo == CreateJob \/ Pipeline \/ Retry \/ Scheduler
SpecTwo == InitTwo /\ [][NextTwo]_vars

\* One daemon whose owner calls start() and stop(timeout) in any order,
\* within one instant of the clock.
InitStartStop == InitWith(2, 0, 1, 0, MaxJobs, 0)
NextStartStop ==
    \/ NextTwo
    \/ \E d \in DOMAIN daemon : Stop(d)
    \/ \E d \in DOMAIN daemon : StopReturn(d)
SpecStartStop == InitStartStop /\ [][NextStartStop]_vars

\* A caller that invokes process_job directly, on any job id.
InitDirect == InitWith(0, 1, 0, 0, MaxJobs, MaxCalls)
NextDirect == CreateJob \/ Tick \/ Pipeline \/ Retry \/ GiveUp \/ Direct
SpecDirect == InitDirect /\ [][NextDirect]_vars

\* The same on a JobStore whose calls can raise.
InitDirectFaulty == InitWith(0, 1, 0, MaxFaults, MaxJobs, MaxCalls)
SpecDirectFaulty == InitDirectFaulty /\ [][NextDirect]_vars

\* The same under the scheduling the runtime gives: every live thread keeps
\* taking steps and a join that can return does return.
ThreadStep(c) == RunLoop(c) \/ ProcessJob(c)
FairStartStop ==
    /\ \A c \in 1..2 : WF_vars(ThreadStep(c))
    /\ WF_vars(\E d \in DOMAIN daemon : StopReturn(d))
SpecShutdown == InitStartStop /\ [][NextStartStop]_vars /\ FairStartStop


(***************************************************************************)
(* Claims.                                                                 *)
(***************************************************************************)
Terminal(r) ==
    \/ r.status = "completed"
    \/ r.status = "failed" /\ r.attempts = r.max_attempts

\* C1: terminal states are absorbing: once a job is completed, or failed
\* with attempts = max_attempts, no step of a process_job call or of the
\* daemon changes its status.
C1_TerminalAbsorbing ==
    [][\A j \in DOMAIN jobs :
          Terminal(jobs[j]) => jobs'[j].status = jobs[j].status]_vars

\* The step by which context c returns from an accepted process_job call
ReturnsAccepted(c) ==
    /\ InProcessJob(c)
    /\ ~InProcessJob(c)'
    /\ ctx'[c].accepted

\* C2: every process_job call that accepted its job returns with the
\* persisted status completed or failed, never processing.
C2_ReturnsSettled ==
    [][\A c \in DOMAIN ctx :
          ReturnsAccepted(c) =>
              jobs'[Job(c)].status \in {"completed", "failed"}]_vars


StagePcs ==
    {"p_download", "p_segment", "p_compose", "p_validate", "p_upload_seg",
     "p_upload_proc", "p_register", "p_complete"}

\* C3: the dequeue is a read, separate from the update that marks the job:
\* the job a daemon has just obtained from get_next_queued_job is still
\* what the query answers, so a second daemon can obtain it too; and the
\* mark that follows writes processing whatever the row holds by then.
C3_DequeueDoesNotClaim ==
    [][\A c \in DOMAIN ctx :
          /\ (ctx[c].pc = "l_poll" /\ ctx'[c].pc # "l_poll" /\ ctx'[c].job # NONE)
                => ctx'[c].job \in GetNextQueuedJob(jobs', now')
          /\ (ctx[c].pc = "p_mark" /\ ctx'[c].pc # "p_mark")
                => jobs'[Job(c)].status = "processing"]_vars

\* C3 witness: threads of two daemons run the pipeline on the same job,
\* each after its own process_job call accepted it.
C3_DoubleProcessing ==
    \E c1 \in DOMAIN ctx, c2 \in DOMAIN ctx :
        /\ c1 # c2
        /\ ctx[c1].d # ctx[c2].d
        /\ ctx[c1].job = ctx[c2].job
        /\ ctx[c1].pc \in StagePcs /\ ctx[c2].pc \in StagePcs
        /\ ctx[c1].accepted /\ ctx[c2].accepted
        /\ jobs[ctx[c1].job].status = "processing"


LoopsOf(d) == {c \in DOMAIN ctx : ctx[c].role = "thread" /\ ctx[c].d = d /\ Alive(c)}

\* C4: whatever start() and stop(timeout) calls are made on a daemon, at
\* most one thread of it runs _run_loop and at most one job is being
\* processed by it.
C4_OneLoopOneJob ==
    \A d \in DOMAIN daemon :
        /\ Cardinality(LoopsOf(d)) <= 1
        /\ Cardinality({c \in LoopsOf(d) : InProcessJob(c)}) <= 1


Handling(j) ==
    \E c \in DOMAIN ctx :
        ctx[c].job = j /\ ctx[c].pc \in {"h_delay", "h_incr_read", "h_incr_write", "h_fail"}

Exhausted(j) == jobs[j].status = "failed" /\ jobs[j].attempts = jobs[j].max_attempts

Eligible(js, t) ==
    {j \in DOMAIN js : /\ js[j].status = "failed"
                       /\ js[j].next_retry_at # NULL
                       /\ js[j].next_retry_at <= t
                       /\ js[j].attempts < js[j].max_attempts}

\* C6: whenever no job is queued and some failed job has next_retry_at <= now
\* and attempts < max_attempts, get_next_queued_job answers such a job and
\* not None, whatever other failed jobs the table holds.
C6_EligibleIsReturned ==
    (QueuedJobs(jobs) = {} /\ Eligible(jobs, now) # {}) =>
        GetNextQueuedJob(jobs, now) \subseteq Eligible(jobs, now)

\* The step by which context c obtains job r from get_next_queued_job
Dequeues(c, r) == ctx[c].pc = "l_poll" /\ ctx'[c].pc = "p_get" /\ ctx'[c].job = r

\* C7: every job a dequeue returns is the queued job created first or, only
\* when no job is queued, a failed job with attempts < max_attempts and
\* next_retry_at <= now; a job whose next_retry_at is in the future is
\* never returned.
C7_ReturnsOnlyEligible ==
    [][\A c \in DOMAIN ctx : \A r \in DOMAIN jobs :
          Dequeues(c, r) =>
            \/ /\ jobs[r].status = "queued"
               /\ \A k \in QueuedJobs(jobs) : jobs[r].created_at <= jobs[k].created_at
            \/ /\ QueuedJobs(jobs) = {}
               /\ jobs[r].status = "failed"
               /\ jobs[r].attempts < jobs[r].max_attempts
               /\ jobs[r].next_retry_at # NULL
               /\ jobs[r].next_retry_at <= now]_vars

\* C7 witness: a failed job whose retry is due has just been dequeued while
\* another failed job still waits for a next_retry_at in the future.
C7_DueReturnedFutureSkipped ==
    \E c \in DOMAIN ctx, k \in DOMAIN jobs :
        /\ ctx[c].pc = "p_get"
        /\ jobs[Job(c)].status = "failed"
        /\ jobs[Job(c)].next_retry_at <= now
        /\ k # Job(c)
        /\ jobs[k].status = "failed"
        /\ jobs[k].attempts < jobs[k].max_attempts
        /\ jobs[k].next_retry_at > now

\* The delay of the N-th failure, N counted from 1
BackoffOf(n) == RETRY_DELAYS[Min(n - 1, Len(RETRY_DELAYS) - 1) + 1]

\* C8: at the N-th failure of a job the delay _handle_failure computes is
\* RETRY_DELAYS[min(N-1, len(RETRY_DELAYS)-1)] of [2, 4, 8], and when a
\* retry remains increment_job_attempt writes next_retry_at = now + delay.
C8_BackoffSequence ==
    /\ RETRY_DELAYS = <<2, 4, 8>>
    /\ [](\A c \in DOMAIN ctx :
            ctx[c].pc \in {"h_incr_read", "h_incr_write"} =>
                ctx[c].delay = BackoffOf(hist[Job(c)].failures))
    /\ [][\A c \in DOMAIN ctx :
            (ctx[c].pc = "h_incr_write" /\ ctx'[c].pc # "h_incr_write" /\ ctx[c].retry) =>
                /\ jobs'[Job(c)].status = "failed"
                /\ jobs'[Job(c)].next_retry_at = now + BackoffOf(hist[Job(c)].failures)]_vars

\* C8 witness: the second failure of a job has just been recorded with a
\* retry left, next_retry_at is 4 after the failure time.
C8_SecondFailureWaitsFour ==
    \E j \in DOMAIN jobs :
        /\ hist[j].failures = 2
        /\ ~Handling(j)
        /\ jobs[j].status = "failed"
        /\ jobs[j].attempts = 2
        /\ jobs[j].next_retry_at = now + 4

\* C9: process_job on an id with no row, or on a job whose status is
\* processing or completed, returns False and writes nothing: the jobs
\* table, the storage buckets and the images table are unchanged.
C9_RejectWritesNothing ==
    [][\A c \in DOMAIN ctx :
          ( /\ ctx[c].pc = "p_get"
            /\ ctx'[c] # ctx[c]
            /\ \/ Job(c) \notin DOMAIN jobs
               \/ jobs[Job(c)].status \in {"processing", "completed"} ) =>
            /\ ~InProcessJob(c)'
            /\ ~ctx'[c].ret
            /\ ~ctx'[c].accepted
            /\ jobs' = jobs /\ blobs' = blobs /\ images' = images]_vars

\* C9 witness: a direct call on a job left in processing has returned False
\* without having been accepted.
C9_RejectedProcessing ==
    \E c \in DOMAIN ctx :
        /\ ctx[c].role = "caller" /\ ctx[c].pc = "idle"
        /\ Job(c) \in DOMAIN jobs
        /\ jobs[Job(c)].status = "processing"
        /\ ~ctx[c].ret /\ ~ctx[c].accepted

\* C10: an attempt in which a stage raised (download, segment, compose,
\* validate, the uploads, the registration of a variant) does not end with
\* the job completed: process_job returns False and the job is failed.
C10_RaisedNeverCompletes ==
    \A c \in DOMAIN ctx :
        (ctx[c].pc = "l_after" /\ ctx[c].raised # {}) =>
            /\ ~ctx[c].ret
            /\ jobs[Job(c)].status = "failed"
            /\ jobs[Job(c)].attempts > 0

\* C11: an input validation error raised inside a stage (a job whose
\* input_data has no original_path) is not retried: once that failure has
\* been recorded, get_next_queued_job never answers the job again.
C11_ValidationErrorNotRetried ==
    \A j \in DOMAIN jobs :
        ( /\ jobs[j].status = "failed"
          /\ jobs[j].last_error = <<"original_path nao encontrado">>
          /\ ~Handling(j) ) =>
            j \notin GetNextQueuedJob(jobs, now)

\* C12: a report with passed = FALSE is no failure: whatever the score, an
\* attempt whose validation returned goes on to the save stage with
\* attempts as it was (the handler is entered from validation only when
\* validate_from_bytes raised, with no report), passed is FALSE exactly for
\* the scores below 80, and the attempt that reaches complete_job ends
\* completed with that score and flag in output_data and attempts unchanged.
C12_ShortfallStillCompletes ==
    [][\A c \in DOMAIN ctx :
          /\ (ctx[c].pc = "p_validate" /\ ctx'[c].pc # "p_validate") =>
                /\ jobs'[Job(c)].attempts = jobs[Job(c)].attempts
                /\ IF "validate" \in ctx'[c].raised
                   THEN ctx'[c].qscore = 0 /\ ~ctx'[c].qpass
                   ELSE /\ ctx'[c].pc = "p_upload_seg"
                        /\ ctx'[c].qpass = (ctx'[c].qscore >= 80)
          /\ (ctx[c].pc = "p_complete" /\ ctx'[c].pc # "p_complete") =>
                /\ jobs'[Job(c)].status = "completed"
                /\ jobs'[Job(c)].output_data[1].quality_passed = ctx[c].qpass
                /\ jobs'[Job(c)].output_data[1].quality_score = ctx[c].qscore
                /\ jobs'[Job(c)].attempts = jobs[Job(c)].attempts]_vars

\* C12 witness: a first attempt whose report scored 79 has returned True,
\* the job is completed with quality_passed = FALSE and attempts = 0.
C12_CompletedBelowThreshold ==
    \E c \in DOMAIN ctx :
        /\ ctx[c].pc = "l_after" /\ ctx[c].ret
        /\ jobs[Job(c)].status = "completed"
        /\ jobs[Job(c)].output_data[1].quality_score = 79
        /\ ~jobs[Job(c)].output_data[1].quality_passed
        /\ jobs[Job(c)].attempts = 0

\* C13: the chain calls the providers in list order and the provider it
\* selects is the first that did not raise and returned a non-empty result:
\* every provider called before it raised or returned nothing, none after it
\* is called, and its name is the provider recorded for the job.
C13_FirstNonEmptyWins ==
    [][\A c \in DOMAIN ctx :
          (ctx[c].pc = "p_segment" /\ ctx'[c].pc = "p_compose") =>
            LET t == ctx'[c].tried
            IN  /\ Len(t) \in 1..Len(Providers)
                /\ t[Len(t)] = "result"
                /\ \A i \in 1..(Len(t) - 1) : t[i] # "result"
                /\ ctx'[c].provider = Providers[Len(t)]
                /\ jobs'[Job(c)].provider = Providers[Len(t)]]_vars

\* The step in which every provider the chain called raised
AllProvidersRaised(c) ==
    /\ ctx[c].pc = "p_segment"
    /\ ctx'[c].pc # "p_segment"
    /\ Len(ctx'[c].tried) = Len(Providers)
    /\ \A i \in 1..Len(Providers) : ctx'[c].tried[i] = "raises"

\* C14: when every provider raises the segment stage fails the attempt: the
\* handler is entered with the aggregate message that ends with the last
\* provider's error, no later stage runs, the handler's increment writes
\* attempts + 1 and the error it records contains that message.
C14_AllProvidersFail ==
    /\ [][\A c \in DOMAIN ctx :
            /\ AllProvidersRaised(c) =>
                  /\ ctx'[c].pc = "h_delay"
                  /\ ctx'[c].raised = {"segment"}
                  /\ ctx'[c].err[Len(ctx'[c].err)] = Providers[Len(Providers)]
            /\ ("segment" \in ctx[c].raised /\ InProcessJob(c)) =>
                  /\ ctx'[c].pc \notin StagePcs
                  /\ ctx'[c].pc = "h_incr_write" =>
                        ctx'[c].new_attempts = jobs[Job(c)].attempts + 1
                  /\ (ctx[c].pc = "h_incr_write" /\ ctx'[c].pc # "h_incr_write") =>
                        /\ jobs'[Job(c)].attempts = jobs[Job(c)].attempts + 1
                        /\ jobs'[Job(c)].last_error = ctx[c].err
                  /\ ~InProcessJob(c)' =>
                        /\ jobs'[Job(c)].status = "failed"
                        /\ \E i \in 1..Len(jobs'[Job(c)].last_error) :
                              jobs'[Job(c)].last_error[i] = Providers[Len(Providers)]]_vars

\* C14 witness: the only provider raised in a first attempt, which has
\* returned False; the job is failed with attempts = 1 and the aggregate
\* message as last_error.
C14_SegmentFailureRecorded ==
    \E c \in DOMAIN ctx :
        /\ ~InProcessJob(c) /\ ctx[c].raised = {"segment"} /\ ~ctx[c].ret
        /\ Job(c) \in DOMAIN jobs
        /\ jobs[Job(c)].status = "failed"
        /\ jobs[Job(c)].attempts = 1
        /\ jobs[Job(c)].provider = ""
        /\ jobs[Job(c)].last_error =
              <<"Segmentacao falhou com todos os providers. Ultimo erro: ", "rembg">>

\* A live loop whose daemon has the stop signal set
Signalled(c) ==
    /\ ctx[c].role = "thread" /\ Alive(c)
    /\ ctx[c].d \in DOMAIN daemon
    /\ daemon[ctx[c].d].stop_set

\* C15: once stop() has set the stop signal the loop exits, after the job
\* in flight (if any) has returned and without waiting out the poll
\* interval; and stop(timeout) returns only when the thread has ended or
\* the timeout has elapsed with a job in flight.
C15_StopEndsLoop ==
    /\ \A c \in 1..2 : [](Signalled(c) => <>(~Alive(c)))
    /\ [][\A d \in DOMAIN daemon :
            (daemon[d].joining /\ ~daemon'[d].joining) =>
                (~Alive(daemon[d].thread) \/ InProcessJob(daemon[d].thread))]_vars

\* C16: start() on a running daemon and stop() on a daemon that is not
\* running change nothing: while running stays set no thread is spawned and
\* running, the stop signal and the thread are as they were; while running
\* stays clear the stop signal and the thread are as they were and no join
\* begins.
C16_StartStopIdempotent ==
    [][\A d \in DOMAIN daemon :
          /\ (daemon[d].running /\ daemon'[d].running) =>
                /\ daemon'[d].thread = daemon[d].thread
                /\ daemon'[d].stop_set = daemon[d].stop_set
                /\ daemon'[d].joining = daemon[d].joining
                /\ LoopsOf(d)' \subseteq LoopsOf(d)
          /\ (~daemon[d].running /\ ~daemon'[d].running) =>
                /\ daemon'[d].thread = daemon[d].thread
                /\ daemon'[d].stop_set = daemon[d].stop_set
                /\ daemon'[d].joining => daemon[d].joining
                /\ LoopsOf(d)' \subseteq LoopsOf(d)]_vars

\* C16 witness: a running daemon whose one live loop has processed a job and
\* is about to poll, while a thread for a second loop could be spawned.
C16_RunningWithSpareThread ==
    \E d \in DOMAIN daemon :
        /\ daemon[d].running /\ ~daemon[d].joining
        /\ LoopsOf(d) = {daemon[d].thread}
        /\ daemon[d].jobs_processed + daemon[d].jobs_failed > 0
        /\ ctx[daemon[d].thread].pc = "l_poll"
        /\ FreeThreads(d) # {}

\* The daemon of loop c is running and has no stop signal set
KeepsRunning(c) ==
    /\ ctx[c].role = "thread" /\ Alive(c)
    /\ daemon[ctx[c].d].running /\ ~daemon[ctx[c].d].stop_set

\* C17: an error of get_next_queued_job or of process_job does not end the
\* loop: while the daemon is running with no stop signalled every step of
\* the loop leaves its thread alive, and from the dequeue, from the return
\* of process_job and from the wait it goes on to the next poll.
C17_LoopSurvivesErrors ==
    [][\A c \in DOMAIN ctx :
          (KeepsRunning(c) /\ ctx'[c] # ctx[c]) =>
            /\ Alive(c)'
            /\ ctx[c].pc = "l_poll" => ctx'[c].pc \in {"p_get", "l_wait"}
            /\ ctx[c].pc = "l_after" => ctx'[c].pc = "l_wait"
            /\ ctx[c].pc = "l_wait" => ctx'[c].pc = "l_check"
            /\ ctx[c].pc = "l_check" => ctx'[c].pc = "l_poll"]_vars

\* C17 witness: a JobStore call has raised and the loop, still alive, is
\* about to poll again.
C17_PollsAfterError ==
    \E c \in DOMAIN ctx :
        /\ KeepsRunning(c)
        /\ faults < MaxFaults
        /\ ctx[c].pc = "l_poll"

\* C18: the persisted progress is an integer in 0..100, and within one
\* attempt it never decreases: after the write that marks the job as
\* processing, no step of the attempt, up to its completed or failed
\* transition, leaves a progress below the one it found.
C18_ProgressMonotonic ==
    /\ [](\A j \in DOMAIN jobs : jobs[j].progress \in 0..100)
    /\ [][\A c \in DOMAIN ctx :
            (InProcessJob(c) /\ ctx[c].accepted /\ ctx[c].pc # "p_mark") =>
                jobs'[Job(c)].progress >= jobs[Job(c)].progress]_vars

\* C18 witness: a second attempt of a job whose first attempt failed at the
\* uploads (progress 88) has been marked and has written its own progress.
C18_SecondAttemptProgress ==
    \E c \in DOMAIN ctx :
        /\ ctx[c].pc = "p_compose"
        /\ hist[Job(c)].failures = 1
        /\ jobs[Job(c)].progress = 50
        /\ jobs[Job(c)].last_error = <<"upload segmented">>

\* C19: in every reachable state a job carries output_data only if its
\* status is completed.
C19_OutputOnlyIfCompleted ==
    \A j \in DOMAIN jobs :
        jobs[j].output_data # <<>> => jobs[j].status = "completed"

\* C20: when a job becomes permanently failed its persisted last_error is
\* exactly the error message of the final failing attempt.
C20_LastErrorVerbatim ==
    [][\A c \in DOMAIN ctx :
          (ctx[c].pc = "h_fail" /\ ctx'[c].pc # "h_fail") =>
              /\ Exhausted(Job(c))'
              /\ jobs'[Job(c)].last_error = ctx[c].err]_vars

\* ---------------------------------------------------------------------------
\* ImagePipelineSync.client: the lazily built storage client
\* (image_pipeline.py 85-98), read by MaxAccessors threads MaxReads times each.
\* ---------------------------------------------------------------------------
MaxAccessors == 3
MaxReads == 2

Accessors == DOMAIN pipe.acc

SetAcc(t, fields) ==
    [pipe EXCEPT !.acc[t] = [f \in DOMAIN @ |->
        IF f \in DOMAIN fields THEN fields[f] ELSE @[f]]]

\* `if self._client is None:` read without the lock (line 93).
ClientCheck(t) ==
    /\ pipe.acc[t].pc = "idle"
    /\ pipe.acc[t].left < MaxReads
    /\ pipe' = SetAcc(t, [pc |-> IF pipe.client = NONE THEN "lock" ELSE "return",
                          left |-> pipe.acc[t].left + 1])
    /\ UNCHANGED <<jobVars, call>>

\* `with self._client_lock:` (line 94): blocks while another thread holds it.
ClientLock(t) ==
    /\ pipe.acc[t].pc = "lock"
    /\ pipe.lock = NONE
    /\ pipe' = [SetAcc(t, [pc |-> "recheck"]) EXCEPT !.lock = t]
    /\ UNCHANGED <<jobVars, call>>

\* Mutant of ClientRecheck: no second look under the lock.
ClientRecheckBlind(t) ==
    /\ pipe.acc[t].pc = "recheck"
    /\ pipe' = SetAcc(t, [pc |-> "build"])
    /\ UNCHANGED <<jobVars, call>>

\* The second `if self._client is None:` under the lock (line 96).
ClientRecheck(t) ==
    /\ pipe.acc[t].pc = "recheck"
    /\ pipe' = SetAcc(t, [pc |-> IF pipe.client = NONE THEN "build" ELSE "unlock"])
    /\ UNCHANGED <<jobVars, call>>

\* `self._client = get_supabase_client()` (line 97).  get_supabase_client
\* (database.py 17-46) raises ValueError when the settings are missing, and
\* otherwise makes a new client at every call; a raise leaves the with block,
\* which frees the lock, and the property access raises.
ClientBuild(t) ==
    /\ pipe.acc[t].pc = "build"
    /\ IF pipe.configured
       THEN pipe' = [SetAcc(t, [pc |-> "unlock"])
                        EXCEPT !.built = @ + 1, !.client = pipe.built + 1]
       ELSE pipe' = [SetAcc(t, [pc |-> "idle",
                                got |-> Append(pipe.acc[t].got,
                                               [raised |-> TRUE, value |-> NONE])])
                        EXCEPT !.lock = NONE]
    /\ UNCHANGED <<jobVars, call>>

\* Leaving the with block.
ClientUnlock(t) ==
    /\ pipe.acc[t].pc = "unlock"
    /\ pipe' = [SetAcc(t, [pc |-> "return"]) EXCEPT !.lock = NONE]
    /\ UNCHANGED <<jobVars, call>>

\* `return self._client` (line 98).
ClientReturn(t) ==
    /\ pipe.acc[t].pc = "return"
    /\ pipe' = SetAcc(t, [pc |-> "idle",
                          got |-> Append(pipe.acc[t].got,
                                         [raised |-> FALSE, value |-> pipe.client])])
    /\ UNCHANGED <<jobVars, call>>

InitClient ==
    /\ InitJobs(0, 0, 0, 0, 0, 0)
    /\ \E settings \in BOOLEAN : pipe = NewPipe(MaxAccessors, settings)
    /\ call = NoCall

NextClient ==
    \E t \in Accessors :
        \/ ClientCheck(t)
        \/ ClientLock(t)
        \/ ClientRecheck(t)
        \/ ClientBuild(t)
        \/ ClientUnlock(t)
        \/ ClientReturn(t)

SpecClient == InitClient /\ [][NextClient]_vars

\* C21: however many threads read the client property of one
\* ImagePipelineSync instance at once, the client is built at most once and
\* every read that returns gives that one client.
C21_ClientBuiltOnce ==
    /\ pipe.built <= 1
    /\ \A t \in Accessors : \A i \in DOMAIN pipe.acc[t].got :
          ~pipe.acc[t].got[i].raised
              => /\ pipe.acc[t].got[i].value # NONE
                 /\ pipe.acc[t].got[i].value = pipe.client

\* One thread has built and read the client; another, which saw no client
\* before taking the lock, now holds the lock and finds the client there.
C21_LateThreadFindsClient ==
    \E t, u \in Accessors :
        /\ t # u
        /\ pipe.acc[t].pc = "recheck"
        /\ pipe.client # NONE
        /\ pipe.built = 1
        /\ Len(pipe.acc[u].got) > 0
        /\ pipe.acc[u].got[1] = [raised |-> FALSE, value |-> pipe.client]

\* ---------------------------------------------------------------------------
\* ImageComposer (image_composer.py): compose_white_background on an image
\* and compose_from_bytes on its encoding.  An image is its mode, its size
\* and the size of the bounding box of its non-transparent pixels (<<>> when
\* every pixel is transparent).
\* ---------------------------------------------------------------------------
TARGET_SIZE == 1200
PRODUCT_COVERAGE == <<17, 20>>      \* 0.85

Modes == {"RGBA", "RGB", "L", "P"}
Dims == {1, 2, 3, 600, 1021}
TargetArgs == {NONE, 1, 2, 800, TARGET_SIZE}

Max(a, b) == IF a >= b THEN a ELSE b

\* Alpha.getbbox() of an RGBA image (_get_content_bbox): the boxes an image
\* of w x h pixels can have.
ContentBoxes(w, h) ==
    {<<>>} \cup {b \in Dims \X Dims : b[1] <= w /\ b[2] <= h}

NewCompose(api, decodable, mode, w, h, content, target_size) ==
    [fn |-> "compose", api |-> api, decodable |-> decodable,
     mode0 |-> mode, mode |-> mode, w |-> w, h |-> h, content |-> content,
     target_size |-> target_size, target |-> NONE, new |-> <<>>,
     pc |-> IF api = "bytes" THEN "open" ELSE "mode",
     inner |-> "", raised |-> "", result |-> <<>>, bound |-> FALSE,
     returned |-> <<>>]

SetCall(fields) ==
    [f \in DOMAIN call |-> IF f \in DOMAIN fields THEN fields[f] ELSE call[f]]

\* compose_white_background raises e: the caller of the image API gets it,
\* compose_from_bytes goes to its finally block with it.
ComposeRaises(e) ==
    IF call.api = "bytes"
    THEN SetCall([pc |-> "finally", inner |-> e])
    ELSE SetCall([pc |-> "done", inner |-> e, raised |-> e])

\* compose_white_background returns the canvas.
ComposeReturns(img) ==
    IF call.api = "bytes"
    THEN SetCall([pc |-> "save", result |-> img, bound |-> TRUE])
    ELSE SetCall([pc |-> "done", result |-> img, returned |-> img])

\* _calculate_scale and the two int() truncations (lines 86-88, 174-199):
\* int(side * min(available / w, available / h)), available = target * 0.85.
\* On the sizes drawn here the double arithmetic gives these integers.
ScaledSide(side, product_w, product_h, target) ==
    (side * PRODUCT_COVERAGE[1] * target)
        \div (PRODUCT_COVERAGE[2] * Max(product_w, product_h))

\* Image.open(input_buffer) in compose_from_bytes (line 137), outside the try.
ComposeOpen ==
    /\ call.fn = "compose" /\ call.pc = "open"
    /\ call' = IF call.decodable
               THEN SetCall([pc |-> "mode"])
               ELSE SetCall([pc |-> "done", raised |-> "UnidentifiedImageError"])
    /\ UNCHANGED <<jobVars, pipe>>

\* target = target_size or TARGET_SIZE, then the mode test (lines 60-70):
\* RGB raises, every other mode without alpha is converted to RGBA, which
\* makes every pixel opaque.
ComposeMode ==
    /\ call.fn = "compose" /\ call.pc = "mode"
    /\ LET target == IF call.target_size = NONE THEN TARGET_SIZE
                                                ELSE call.target_size
       IN  call' =
             IF call.mode = "RGBA"
             THEN SetCall([pc |-> "bbox", target |-> target])
             ELSE IF call.mode = "RGB"
             THEN [ComposeRaises("ValueError") EXCEPT !.target = target]
             ELSE SetCall([pc |-> "bbox", target |-> target, mode |-> "RGBA",
                           content |-> <<call.w, call.h>>])
    /\ UNCHANGED <<jobVars, pipe>>

\* _get_content_bbox; no content returns the white canvas (lines 72-77);
\* otherwise crop and compute the scaled size (lines 80-88).
ComposeBBox ==
    /\ call.fn = "compose" /\ call.pc = "bbox"
    /\ call' =
         IF call.content = <<>>
         THEN ComposeReturns(<<"RGB", call.target, call.target>>)
         ELSE SetCall([pc |-> "resize",
                       new |-> <<ScaledSide(call.content[1], call.content[1],
                                            call.content[2], call.target),
                                 ScaledSide(call.content[2], call.content[1],
                                            call.content[2], call.target)>>])
    /\ UNCHANGED <<jobVars, pipe>>

\* product.resize((new_w, new_h), LANCZOS) (lines 93-96).  For a side of 0
\* the imaging library either raises ValueError or yields an empty image,
\* depending on its version.
ComposeResize ==
    /\ call.fn = "compose" /\ call.pc = "resize"
    /\ \/ call' = SetCall([pc |-> "paste"])
       \/ /\ call.new[1] < 1 \/ call.new[2] < 1
          /\ call' = ComposeRaises("ValueError")
    /\ UNCHANGED <<jobVars, pipe>>

\* The canvas, the shadow and the paste (lines 99-118).
ComposePaste ==
    /\ call.fn = "compose" /\ call.pc = "paste"
    /\ call' = ComposeReturns(<<"RGB", call.target, call.target>>)
    /\ UNCHANGED <<jobVars, pipe>>

\* result.save(output, format='PNG') and return output.getvalue()
\* (lines 145-146); the return runs the finally block first.
ComposeSave ==
    /\ call.fn = "compose" /\ call.pc = "save"
    /\ call' = SetCall([pc |-> "finally"])
    /\ UNCHANGED <<jobVars, pipe>>

\* finally: input_image.close(); result.close() (lines 147-150).  result is
\* assigned only when compose_white_background returned: otherwise reading it
\* raises UnboundLocalError, which replaces the exception in flight.
ComposeFinally ==
    /\ call.fn = "compose" /\ call.pc = "finally"
    /\ call' = IF ~call.bound
               THEN SetCall([pc |-> "done", raised |-> "UnboundLocalError"])
               ELSE SetCall([pc |-> "done", returned |-> <<"PNG">> \o call.result])
    /\ UNCHANGED <<jobVars, pipe>>

InitCompose ==
    /\ InitJobs(0, 0, 0, 0, 0, 0)
    /\ pipe = NewPipe(0, TRUE)
    /\ \E mode \in Modes, w \in Dims, h \in Dims, target_size \in TargetArgs :
         \E content \in IF mode = "RGBA" THEN ContentBoxes(w, h) ELSE {<<>>} :
           \/ call = NewCompose("image", TRUE, mode, w, h, content, target_size)
           \/ \E decodable \in BOOLEAN :
                 call = NewCompose("bytes", decodable, mode, w, h, content,
                                   target_size)

NextCompose ==
    \/ ComposeOpen
    \/ ComposeMode
    \/ ComposeBBox
    \/ ComposeResize
    \/ ComposePaste
    \/ ComposeSave
    \/ ComposeFinally

SpecCompose == InitCompose /\ [][NextCompose]_vars

NoAlphaModes == {"RGB", "L", "P"}

\* C22: compose_white_background refuses with ValueError every image whose
\* mode has no alpha channel (RGB, grayscale, palette) and never composes one.
C22_NoAlphaRejected ==
    (call.fn = "compose" /\ call.api = "image" /\ call.pc = "done"
        /\ call.mode0 \in NoAlphaModes)
    => call.raised = "ValueError" /\ call.returned = <<>>

\* C23: for every RGBA image with a non-transparent pixel and every positive
\* target N, compose_white_background returns, without raising, an RGB image
\* of N x N; both scaled sides of the subject are at least 1 and at most N.
C23_ComposesEveryContent ==
    (call.fn = "compose" /\ call.api = "image" /\ call.pc = "done"
        /\ call.mode0 = "RGBA" /\ call.content # <<>> /\ call.target_size # NONE)
    => /\ call.raised = ""
       /\ call.returned = <<"RGB", call.target_size, call.target_size>>
       /\ call.new[1] >= 1 /\ call.new[1] <= call.target_size
       /\ call.new[2] >= 1 /\ call.new[2] <= call.target_size

\* C28: when compose_white_background raises inside compose_from_bytes, the
\* caller of compose_from_bytes gets that same exception.
C28_BytesApiSameError ==
    (call.fn = "compose" /\ call.api = "bytes" /\ call.pc = "done"
        /\ call.inner # "")
    => call.raised = call.inner

\* ---------------------------------------------------------------------------
\* HuskLayer (husk_layer.py): calculate_quality_score and _find_content_bbox.
\* An RGB image is its size, a set of marked pixels that all have `ink` as
\* their lowest channel (every other pixel is pure white), and the four
\* values _calculate_rgb_delta gives for its corner squares.  The corner
\* values are drawn independently of the marked pixels, which gives the
\* checks at least every combination of measurements a real image can give.
\* ---------------------------------------------------------------------------
SCORE_RESOLUTION == 30
SCORE_CENTERING == 40
SCORE_BACKGROUND == 30
MIN_RESOLUTION == 1200
RGB_DELTA_TOLERANCE == 5
CENTER_TOLERANCE == <<3, 20>>       \* 0.15
COVERAGE_MIN == <<3, 4>>            \* 0.75
COVERAGE_MAX == <<19, 20>>          \* 0.95
WHITE_THRESHOLD == 250

MaxMarked == 2

HuskSides == {1, 2, 3, 4, 1000, 1200}
Inks == {249, 250}
CornerDeltas == {5, 24, 255}

MarkCoords(side) ==
    {c \in {0, 1, 2, 3, side \div 12, side - side \div 12} : c < side}

RECURSIVE MarkedSets(_, _)
MarkedSets(pts, k) ==
    IF k = 0 THEN {{}}
    ELSE LET smaller == MarkedSets(pts, k - 1)
         IN  smaller \cup {m \cup {p} : m \in smaller, p \in pts}

\* The four corner values; only their sum is used, so they are drawn in
\* ascending order.
CornerSamples ==
    {d \in CornerDeltas \X CornerDeltas \X CornerDeltas \X CornerDeltas :
        d[1] <= d[2] /\ d[2] <= d[3] /\ d[3] <= d[4]}

Abs(x) == IF x < 0 THEN -x ELSE x
SetMin(S) == CHOOSE x \in S : \A y \in S : x <= y
SetMax(S) == CHOOSE x \in S : \A y \in S : x >= y

\* r < white_threshold or g < white_threshold or b < white_threshold (line 336).
IsContent(img, p) == p \in img.marked /\ img.ink < WHITE_THRESHOLD

\* _find_content_bbox (lines 310-352): the loops visit x and y in steps of 2;
\* <<>> stands for None.
FindContentBBox(img) ==
    LET found == {p \in img.marked :
                    p[1] % 2 = 0 /\ p[2] % 2 = 0 /\ IsContent(img, p)}
        xs == {p[1] : p \in found}
        ys == {p[2] : p \in found}
    IN  IF found = {} THEN <<>>
        ELSE <<Max(0, SetMin(xs) - 2), Max(0, SetMin(ys) - 2),
               Min(img.w, SetMax(xs) + 2), Min(img.h, SetMax(ys) + 2)>>

\* The bounding box (left, top, right, bottom; right and bottom exclusive)
\* of every pixel with a channel below the threshold.
ExactBBox(img) ==
    LET content == {p \in img.marked : IsContent(img, p)}
        xs == {p[1] : p \in content}
        ys == {p[2] : p \in content}
    IN  IF content = {} THEN <<>>
        ELSE <<SetMin(xs), SetMin(ys), SetMax(xs) + 1, SetMax(ys) + 1>>

\* _check_resolution (lines 142-169).
CheckResolution(img) ==
    LET min_dim == Min(img.w, img.h)
    IN  IF min_dim >= MIN_RESOLUTION THEN SCORE_RESOLUTION
        ELSE (SCORE_RESOLUTION * min_dim) \div MIN_RESOLUTION

\* _check_centering (lines 171-252).  offset = d / (2 * side) and coverage =
\* content / side are kept as fractions.  At coverage 1 the double
\* arithmetic gives 1.0 - 0.95 > 0.05 and int() yields 9, not 10; on every
\* other measurement drawn here it gives the integers computed below.
CheckCentering(img) ==
    LET bbox == FindContentBBox(img)
    IN  IF bbox = <<>> THEN 0
        ELSE
          LET content_w == bbox[3] - bbox[1]
              content_h == bbox[4] - bbox[2]
              dx == Abs(2 * bbox[1] + content_w - img.w)
              dy == Abs(2 * bbox[2] + content_h - img.h)
              xOff == dx * img.h >= dy * img.w
              on == IF xOff THEN dx ELSE dy
              od == 2 * (IF xOff THEN img.w ELSE img.h)
              center_score ==
                  IF on * CENTER_TOLERANCE[2] <= CENTER_TOLERANCE[1] * od THEN 20
                  ELSE IF 2 * on >= od THEN 0
                  ELSE (20 * (od - 2 * on)) \div od
              xCov == content_w * img.h >= content_h * img.w
              cn == IF xCov THEN content_w ELSE content_h
              cd == IF xCov THEN img.w ELSE img.h
              coverage_score ==
                  IF /\ cn * COVERAGE_MIN[2] >= COVERAGE_MIN[1] * cd
                     /\ cn * COVERAGE_MAX[2] <= COVERAGE_MAX[1] * cd
                  THEN 20
                  ELSE IF cn * COVERAGE_MIN[2] < COVERAGE_MIN[1] * cd
                  THEN (20 * cn * COVERAGE_MIN[2]) \div (COVERAGE_MIN[1] * cd)
                  ELSE IF 200 * cn - 190 * cd >= 20 * cd THEN 0
                  ELSE IF cn = cd THEN 9
                  ELSE (210 * cd - 200 * cn) \div cd
          IN  center_score + coverage_score

\* Mutant of CheckBackgroundPurity: the penalty is not capped at 1.
CheckBackgroundPurityUncapped(img) ==
    LET total_delta == img.corners[1] + img.corners[2] + img.corners[3]
                         + img.corners[4]
    IN  IF total_delta <= 4 * RGB_DELTA_TOLERANCE THEN SCORE_BACKGROUND
        ELSE (SCORE_BACKGROUND * (200 - total_delta)) \div 200

\* _check_background_purity (lines 254-304): avg_delta = total_delta / 4,
\* penalty_ratio = min(1.0, avg_delta / 50).
CheckBackgroundPurity(img) ==
    LET total_delta == img.corners[1] + img.corners[2] + img.corners[3]
                         + img.corners[4]
    IN  IF total_delta <= 4 * RGB_DELTA_TOLERANCE THEN SCORE_BACKGROUND
        ELSE IF total_delta >= 200 THEN 0
        ELSE (SCORE_BACKGROUND * (200 - total_delta)) \div 200

\* calculate_quality_score (lines 83-123).
CalculateQualityScore(img) ==
    LET resolution == CheckResolution(img)
        centering == CheckCentering(img)
        background == CheckBackgroundPurity(img)
        total_score == resolution + centering + background
    IN  [resolution |-> resolution, centering |-> centering,
         background |-> background, score |-> total_score,
         passed |-> total_score >= PASS_THRESHOLD]

NewHusk(fn, img) ==
    [fn |-> fn, pc |-> "call", img |-> img, report |-> <<>>, bbox |-> <<>>]

HuskScore ==
    /\ call.fn = "score" /\ call.pc = "call"
    /\ call' = [call EXCEPT !.pc = "done",
                            !.report = CalculateQualityScore(call.img)]
    /\ UNCHANGED <<jobVars, pipe>>

HuskFindBBox ==
    /\ call.fn = "bbox" /\ call.pc = "call"
    /\ call' = [call EXCEPT !.pc = "done", !.bbox = FindContentBBox(call.img)]
    /\ UNCHANGED <<jobVars, pipe>>

InitHusk ==
    /\ InitJobs(0, 0, 0, 0, 0, 0)
    /\ pipe = NewPipe(0, TRUE)
    /\ \E w \in HuskSides, h \in HuskSides, ink \in Inks :
         \E marked \in MarkedSets(MarkCoords(w) \X MarkCoords(h), MaxMarked) :
           \/ \E corners \in CornerSamples :
                 call = NewHusk("score", [w |-> w, h |-> h, ink |-> ink,
                                          marked |-> marked, corners |-> corners])
           \/ call = NewHusk("bbox", [w |-> w, h |-> h, ink |-> ink,
                                      marked |-> marked,
                                      corners |-> <<5, 5, 5, 5>>])

NextHusk == HuskScore \/ HuskFindBBox

SpecHusk == InitHusk /\ [][NextHusk]_vars

\* C24: for every image the report has a resolution sub-score in 0..30, a
\* centering sub-score in 0..40 and a background sub-score in 0..30; the
\* score is their sum, lies in 0..100, and passed holds exactly when the
\* score is at least 80.
C24_ScoreBounds ==
    (call.fn = "score" /\ call.pc = "done")
    => /\ call.report.resolution \in 0..30
       /\ call.report.centering \in 0..40
       /\ call.report.background \in 0..30
       /\ call.report.score = call.report.resolution + call.report.centering
                                + call.report.background
       /\ call.report.score \in 0..100
       /\ call.report.passed <=> call.report.score >= 80

\* An image has been scored and passes although a sub-score is short of its
\* maximum.
C24_PassesWithPartialScore ==
    /\ call.fn = "score" /\ call.pc = "done"
    /\ call.report.passed
    /\ call.report.score < 100

\* C25: each edge of the box the every-other-pixel scan returns is within one
\* pixel of the same edge of the exact box of the pixels with a channel
\* below 250, and the scan finds no content only when there is none.
C25_ScanWithinOnePixel ==
    (call.fn = "bbox" /\ call.pc = "done")
    => LET exact == ExactBBox(call.img)
       IN  IF call.bbox = <<>> THEN exact = <<>>
           ELSE \A i \in 1..4 : Abs(call.bbox[i] - exact[i]) <= 1

\* A failed job that may be retried and is due, in a table from which the
\* dequeue can answer only None: nothing is queued or still to be inserted,
\* no process_job call is under way, and the failed row with the earliest
\* next_retry_at, the only one the query looks at, has used up its attempts.
\* No step changes the table from here on, so the job is never dequeued.
Starved(j) ==
    /\ j \in Eligible(jobs, now)
    /\ QueuedJobs(jobs) = {}
    /\ pending = 0
    /\ \A c \in DOMAIN ctx : ~InProcessJob(c)
    /\ GetNextQueuedJob(jobs, now) = {NONE}

\* C26: with one running scheduler, finitely many jobs, stages that return
\* and a clock that advances, every job ends completed or failed with
\* attempts = max_attempts: no queued or retryable failed job is left
\* undequeued for ever, that is, no job is ever starved.
C26_NoJobStarves == \A j \in DOMAIN jobs : ~Starved(j)

\* C27: process_job returns True only if the job is then persisted as
\* completed with its output_data; when the completion write does not take
\* effect it returns False.
C27_TrueOnlyIfCompleted ==
    [][\A c \in DOMAIN ctx :
          (InProcessJob(c) /\ ~InProcessJob(c)' /\ ctx'[c].ret) =>
              /\ jobs'[Job(c)].status = "completed"
              /\ jobs'[Job(c)].output_data # <<>>]_vars

\* C29: a step makes a job permanently failed (failed with attempts =
\* max_attempts) only when max_attempts attempts of that job have failed;
\* and when the count incremented for a failed attempt is still below
\* max_attempts, the handler leaves the job failed with attempts one higher
\* and returns, the job staying retryable.
C29_PermanentOnlyAfterMax ==
    [][/\ \A j \in DOMAIN jobs :
            (~Exhausted(j) /\ Exhausted(j)') =>
                hist'[j].failures >= jobs[j].max_attempts
       /\ \A c \in DOMAIN ctx :
            (/\ ctx[c].pc = "h_incr_write"
             /\ ctx'[c].pc # "h_incr_write"
             /\ ctx[c].new_attempts < jobs[Job(c)].max_attempts) =>
                /\ ~InProcessJob(c)'
                /\ jobs'[Job(c)].status = "failed"
                /\ jobs'[Job(c)].attempts = jobs[Job(c)].attempts + 1
                /\ jobs'[Job(c)].attempts < jobs'[Job(c)].max_attempts]_vars

\* C30: in every state every job has 0 <= attempts <= max_attempts, and
\* attempts < max_attempts while it is queued: no sequence of process_job
\* calls persists an attempts value above max_attempts.
C30_AttemptsBounded ==
    \A j \in DOMAIN jobs :
        /\ jobs[j].attempts >= 0
        /\ jobs[j].attempts <= jobs[j].max_attempts
        /\ jobs[j].status = "queued" => jobs[j].attempts < jobs[j].max_attempts


====
